---- MODULE Spec2Model ----
(***************************************************************************)
(* Model of the fraud-detection browser extension's content script         *)
(* (src/extension/content.js): link discovery, scoring requests,           *)
(* annotation of anchors and the click gate.                               *)
(*                                                                         *)
(* Strings that the code converts (attribute values, URLs) are sequences   *)
(* of one-character strings, so that String(), parseInt() and startsWith() *)
(* are computed as JavaScript computes them.                               *)
(* Time is counted in steps of 100ms (the stagger of scanAllLinks): every  *)
(* pending timer carries the steps left until it fires, and fires when     *)
(* none is left (simulated time).                                          *)
(***************************************************************************)
EXTENDS Integers, Sequences, FiniteSets, TLC

(* ------------------------------ bounds --------------------------------- *)
MaxRequests == 2      \* requests dispatched in one page session (Spec)
MaxRescans == 1       \* rescanPage messages received (Spec)
MaxModals == 1        \* warning modals created in one page session (Spec)
MaxGateModals == 2    \* warning modals created in one page session (SpecGate)
MaxGateScore == 100   \* largest score the service answers with (SpecGate)
MaxAnalyses == 2      \* calls of analyzeURL in one session (SpecBg)
MaxRestarts == 1      \* restarts of the service worker (SpecBg)
MaxPolicyAnalyses == 1  \* calls of analyzeURL in one session (SpecPolicy)
MaxHrefChanges == 1   \* times the page rewrites an href (SpecHref)

(* ------------------------- JavaScript strings -------------------------- *)
Digits == <<"0", "1", "2", "3", "4", "5", "6", "7", "8", "9">>

IsDigit(c) == \E i \in 1..10 : Digits[i] = c

DigitVal(c) == (CHOOSE i \in 1..10 : Digits[i] = c) - 1

IsWhite(c) == c \in {" ", "\t", "\n"}

RECURSIVE NatToStr(_)
NatToStr(n) == IF n < 10 THEN <<Digits[n + 1]>>
               ELSE NatToStr(n \div 10) \o <<Digits[(n % 10) + 1]>>

\* Number.prototype.toString for an integer
NumToStr(n) == IF n < 0 THEN <<"-">> \o NatToStr(0 - n) ELSE NatToStr(n)

\* JavaScript values that occur in a response body
Undefined == [t |-> "undefined"]
NaN == [t |-> "NaN"]
Num(n) == [t |-> "number", v |-> n]
Str(s) == [t |-> "string", v |-> s]

UndefinedChars == <<"u", "n", "d", "e", "f", "i", "n", "e", "d">>

\* String(value), as applied by setAttribute and by template literals
ToJSString(x) == CASE x.t = "number" -> NumToStr(x.v)
                   [] x.t = "string" -> x.v
                   [] x.t = "undefined" -> UndefinedChars
                   [] OTHER -> <<"N", "a", "N">>

RECURSIVE SkipWhite(_)
SkipWhite(s) == IF s # <<>> /\ IsWhite(Head(s)) THEN SkipWhite(Tail(s)) ELSE s

RECURSIVE ParseDigits(_, _, _)
ParseDigits(s, acc, seen) ==
  IF s # <<>> /\ IsDigit(Head(s))
  THEN ParseDigits(Tail(s), 10 * acc + DigitVal(Head(s)), TRUE)
  ELSE [seen |-> seen, val |-> acc]

\* parseInt(string) with the default radix
parseInt(str) ==
  LET s == SkipWhite(str)
      neg == s # <<>> /\ Head(s) = "-"
      body == IF s # <<>> /\ Head(s) \in {"-", "+"} THEN Tail(s) ELSE s
      r == ParseDigits(body, 0, FALSE)
  IN IF ~r.seen THEN NaN
     ELSE IF neg THEN Num(0 - r.val) ELSE Num(r.val)

\* x >= n for a JavaScript value x and a number n (NaN and undefined compare false)
GE(x, n) == x.t = "number" /\ x.v >= n

startsWith(s, p) == Len(s) >= Len(p) /\ SubSeq(s, 1, Len(p)) = p

(* ------------------------------ document ------------------------------- *)
Elems == {"e1", "e2", "e3"}

\* document order of the anchors
DocOrder == <<"e1", "e2", "e3">>

InitialDoc == {"e1", "e2"}

HttpPrefix == <<"h", "t", "t", "p", ":", "/", "/">>
HttpsPrefix == <<"h", "t", "t", "p", "s", ":", "/", "/">>

\* The absolute URLs that occur on the pages explored. The state holds
\* the name of a URL; UrlText is the string the code sees as link.href.
UrlA == "A"
UrlB == "B"
UrlMail == "M"

URLs == {UrlA, UrlB, UrlMail}

UrlText(u) == CASE u = UrlA -> HttpsPrefix \o <<"a">>
                [] u = UrlB -> HttpPrefix \o <<"b">>
                [] OTHER -> <<"m", "a", "i", "l", "t", "o", ":", "m">>

Doc(a, b, c) == [e \in Elems |-> IF e = "e1" THEN a ELSE IF e = "e2" THEN b ELSE c]

\* the pages explored: one whose first link is repeated by the anchor that
\* is inserted later, and one whose first anchor is not http(s)
Documents == {Doc(UrlA, UrlB, UrlA), Doc(UrlMail, UrlA, UrlB)}

NoAttr == <<"<", "n", "u", "l", "l", ">">>   \* getAttribute returned null

NoStyle == "none"

(* ------------------------------ responses ------------------------------ *)
NoBody == [t |-> "nobody"]

Body(score, level) == [t |-> "json", risk_score |-> score, risk_level |-> level]

\* the risk_level the service sends along with a score
LevelOf(s) == IF s >= 70 THEN <<"H", "I", "G", "H">>
              ELSE IF s >= 40 THEN <<"M", "E", "D", "I", "U", "M">>
              ELSE IF s >= 20 THEN <<"L", "O", "W">>
              ELSE <<"S", "A", "F", "E">>

OkResponse(s) == [kind |-> "ok", body |-> Body(Num(s), Str(LevelOf(s)))]

ResponseScores == {85, 5}

\* What the scoring service can answer: a valid body; a transport error
\* (fetch rejects); and a JSON body without risk_score and risk_level. The
\* last one stands for a non-2xx answer with a JSON error body as well as
\* for a malformed 2xx answer: the code reads neither response.ok nor
\* response.status, so the two are the same input to it.
Responses ==
  {OkResponse(s) : s \in ResponseScores}
  \cup {[kind |-> "network_error", body |-> NoBody],
        [kind |-> "no_risk_score", body |-> Body(Undefined, Undefined)]}

NoResponse == [kind |-> "none", body |-> NoBody]

(* ------------------------------- state --------------------------------- *)
VARIABLES
  href,            \* href[e]: the absolute URL of anchor e
  inDoc,           \* anchors currently in the document
  analyzedLinks,   \* the Set of URLs already handed to the scorer
  timers,          \* pending setTimeout callbacks of scanAllLinks
  requests,        \* every fetch of analyzeLinkElement, in dispatch order
  rescans,         \* rescanPage messages handled so far
  reply,           \* last answer given through sendResponse
  dataRiskScore,   \* data-risk-score attribute of each anchor
  dataRiskLevel,   \* data-risk-level attribute of each anchor
  style,           \* inline border / background of each anchor
  title,           \* tooltip of each anchor
  badges,          \* badge spans appended to each anchor
  event,           \* the last click event and what the handler did with it
  modals,          \* warning modals in the document, in document order
  modalSeq,        \* warning modals created so far
  hrefChanges      \* times the page rewrote an href

\* the background service worker (src/extension/background.js)
VARIABLES
  stats,           \* the module-level stats object of the running worker
  stored,          \* the value under the key 'stats' in chrome.storage.local
  loading,         \* the chrome.storage.local.get whose callback is pending
  installPending,  \* an onInstalled event is waiting to be dispatched
  restarts,        \* times the worker was started again
  analyses,        \* every call of analyzeURL, in call order
  notifications,   \* every notification created, in creation order
  tabUrl           \* what the tab shows

docVars == <<href, inDoc, hrefChanges>>
indexVars == <<analyzedLinks, requests>>
timeVars == <<timers>>
annotVars == <<dataRiskScore, dataRiskLevel, style, title, badges>>
gateVars == <<event, modals, modalSeq>>
msgVars == <<rescans, reply>>

pageVars == <<href, inDoc, analyzedLinks, timers, requests, rescans, reply,
              dataRiskScore, dataRiskLevel, style, title, badges, event, modals,
              modalSeq, hrefChanges>>

bgVars == <<stats, stored, loading, installPending, restarts, analyses,
            notifications, tabUrl>>

vars == <<pageVars, bgVars>>

NoEvent == [target |-> "none", defaultPrevented |-> FALSE,
            propagationStopped |-> FALSE, confirmShown |-> FALSE,
            proceed |-> "none", warningShown |-> FALSE]

\* The page runs one task at a time: while a click event is being
\* dispatched no other callback runs.
Idle == event = NoEvent

NoReply == [success |-> "none"]

NoTitle == [emoji |-> "none", score |-> <<>>, level |-> <<>>]

(* --------------------------- scanAllLinks ------------------------------ *)
RECURSIVE FilterSeq(_, _)
FilterSeq(s, S) == IF s = <<>> THEN <<>>
                   ELSE IF Head(s) \in S THEN <<Head(s)>> \o FilterSeq(Tail(s), S)
                   ELSE FilterSeq(Tail(s), S)

\* document.querySelectorAll('a[href]') on a document holding the anchors doc
querySelectorAll(doc) == FilterSeq(DocOrder, doc)

scanAllLinksNoStagger(doc, gen) ==
  LET links == querySelectorAll(doc)
  IN {[el |-> links[i], idx |-> 0, left |-> 0, gen |-> gen] :
        i \in 1..Len(links)}

\* the timers scanAllLinks registers: link number index fires after index * 100ms
\* (idx), left is the part of that delay still to elapse
scanAllLinks(doc, gen) ==
  LET links == querySelectorAll(doc)
  IN {[el |-> links[i], idx |-> i - 1, left |-> i - 1, gen |-> gen] :
        i \in 1..Len(links)}

(* ------------------------- analyzeLinkElement -------------------------- *)
analyzeLinkElementNoCheck(ix, e) ==
  LET url == href[e]
  IN IF ~startsWith(UrlText(url), HttpPrefix)
        /\ ~startsWith(UrlText(url), HttpsPrefix) THEN ix
     ELSE [links |-> ix.links \cup {url},
           reqs |-> Append(ix.reqs, [el |-> e, url |-> url, gen |-> rescans,
                                     status |-> "InFlight",
                                     response |-> NoResponse])]

analyzeLinkElementNoFilter(ix, e) ==
  LET url == href[e]
  IN IF url \in ix.links THEN ix
     ELSE [links |-> ix.links \cup {url},
           reqs |-> Append(ix.reqs, [el |-> e, url |-> url, gen |-> rescans,
                                     status |-> "InFlight",
                                     response |-> NoResponse])]

\* The synchronous part of analyzeLinkElement, up to the fetch: the state
\* of the index and of the request list after the call.
analyzeLinkElement(ix, e) ==
  LET url == href[e]
  IN IF url \in ix.links THEN ix
     ELSE IF ~startsWith(UrlText(url), HttpPrefix)
             /\ ~startsWith(UrlText(url), HttpsPrefix) THEN ix
     ELSE [links |-> ix.links \cup {url},
           reqs |-> Append(ix.reqs, [el |-> e, url |-> url, gen |-> rescans,
                                     status |-> "InFlight",
                                     response |-> NoResponse])]

RECURSIVE analyzeAll(_, _)
analyzeAll(ix, es) == IF es = <<>> THEN ix
                      ELSE analyzeAll(analyzeLinkElement(ix, Head(es)), Tail(es))

Index == [links |-> analyzedLinks, reqs |-> requests]

\* let stats = { urlsScanned: 0, threatsBlocked: 0, lastScan: null }
ZeroStats == [urlsScanned |-> 0, threatsBlocked |-> 0, lastScan |-> 0]

NoStats == [urlsScanned |-> -1, threatsBlocked |-> -1, lastScan |-> -1]

NoLoad == [pending |-> FALSE, value |-> NoStats]

PageTab == "page"
BlankTab == "about:blank"

\* The extension has just been installed: the worker script has run, the
\* storage is empty and the onInstalled event is about to be dispatched.
InitBg ==
  /\ stats = ZeroStats
  /\ stored = NoStats
  /\ loading = NoLoad
  /\ installPending = TRUE
  /\ restarts = 0
  /\ analyses = <<>>
  /\ notifications = <<>>
  /\ tabUrl = PageTab

\* the content script has just run initializeProtection on a page
InitPage ==
  /\ inDoc = InitialDoc
  /\ analyzedLinks = {}
  /\ timers = scanAllLinks(InitialDoc, 0)
  /\ requests = <<>>
  /\ rescans = 0
  /\ reply = NoReply
  /\ dataRiskScore = [e \in Elems |-> NoAttr]
  /\ dataRiskLevel = [e \in Elems |-> NoAttr]
  /\ style = [e \in Elems |-> [border |-> NoStyle, backgroundColor |-> NoStyle]]
  /\ title = [e \in Elems |-> NoTitle]
  /\ badges = [e \in Elems |-> 0]
  /\ event = NoEvent
  /\ modals = <<>>
  /\ modalSeq = 0
  /\ hrefChanges = 0

Init ==
  /\ InitBg
  /\ href \in Documents
  /\ InitPage

TimerFireSerial(t) ==
  /\ Idle
  /\ t \in timers
  /\ t.left = 0
  /\ \A i \in 1..Len(requests) : requests[i].status # "InFlight"
  /\ LET ix == analyzeLinkElement(Index, t.el)
     IN /\ analyzedLinks' = ix.links
        /\ requests' = ix.reqs
  /\ timers' = timers \ {t}
  /\ UNCHANGED <<docVars, annotVars, gateVars, msgVars>>

\* a scan timer fires: the callback calls analyzeLinkElement(link)
TimerFire(t) ==
  /\ Idle
  /\ t \in timers
  /\ t.left = 0
  /\ LET ix == analyzeLinkElement(Index, t.el)
     IN /\ analyzedLinks' = ix.links
        /\ requests' = ix.reqs
  /\ timers' = timers \ {t}
  /\ UNCHANGED <<docVars, annotVars, gateVars, msgVars>>

(* --------------------------- addRiskIndicator -------------------------- *)
Red == "#ef4444"
Yellow == "#f59e0b"

\* emoji chosen by addRiskIndicator for a risk_score
EmojiOf(score) == IF GE(score, 70) THEN "alarm"
                  ELSE IF GE(score, 40) THEN "warning"
                  ELSE IF GE(score, 20) THEN "info"
                  ELSE "check"

\* inline style of the anchor after addRiskIndicator
StyleAfter(old, score) ==
  IF GE(score, 70) THEN [border |-> Red, backgroundColor |-> "#fee2e2"]
  ELSE IF GE(score, 40) THEN [border |-> Yellow, backgroundColor |-> "#fef3c7"]
  ELSE old

BadgeAddedFromLow(score) == IF GE(score, 20) THEN 1 ELSE 0

\* the badge is appended only for medium and high risk
BadgeAdded(score) == IF GE(score, 40) THEN 1 ELSE 0

addRiskIndicator(e, result) ==
  /\ style' = [style EXCEPT ![e] = StyleAfter(style[e], result.risk_score)]
  /\ title' = [title EXCEPT ![e] = [emoji |-> EmojiOf(result.risk_score),
                                    score |-> ToJSString(result.risk_score),
                                    level |-> ToJSString(result.risk_level)]]
  /\ badges' = [badges EXCEPT ![e] = @ + BadgeAdded(result.risk_score)]

\* response.json() resolves exactly when the body is JSON
JsonParses(resp) == resp.body.t = "json"

\* the fetch of request i settles and response.json() resolves: the rest of
\* the try block of analyzeLinkElement runs
Resolve(i, resp) ==
  /\ Idle
  /\ i \in 1..Len(requests)
  /\ requests[i].status = "InFlight"
  /\ JsonParses(resp)
  /\ LET e == requests[i].el
     IN /\ addRiskIndicator(e, resp.body)
        /\ dataRiskScore' = [dataRiskScore EXCEPT ![e] = ToJSString(resp.body.risk_score)]
        /\ dataRiskLevel' = [dataRiskLevel EXCEPT ![e] = ToJSString(resp.body.risk_level)]
  /\ requests' = [requests EXCEPT ![i].status = "Annotated", ![i].response = resp]
  /\ UNCHANGED <<analyzedLinks, timeVars, docVars, gateVars, msgVars>>

RejectAnnotates(i, resp) ==
  /\ Idle
  /\ i \in 1..Len(requests)
  /\ requests[i].status = "InFlight"
  /\ ~JsonParses(resp)
  /\ requests' = [requests EXCEPT ![i].status = "Failed", ![i].response = resp]
  /\ dataRiskScore' = [dataRiskScore EXCEPT ![requests[i].el] = NumToStr(100)]
  /\ UNCHANGED <<analyzedLinks, timeVars, docVars, dataRiskLevel, style, title,
                 badges, gateVars, msgVars>>

RejectForgets(i, resp) ==
  /\ Idle
  /\ i \in 1..Len(requests)
  /\ requests[i].status = "InFlight"
  /\ ~JsonParses(resp)
  /\ requests' = [requests EXCEPT ![i].status = "Failed", ![i].response = resp]
  /\ analyzedLinks' = analyzedLinks \ {requests[i].url}
  /\ UNCHANGED <<timeVars, docVars, annotVars, gateVars, msgVars>>

\* the fetch rejects, or response.json() rejects: the catch block logs the error
Reject(i, resp) ==
  /\ Idle
  /\ i \in 1..Len(requests)
  /\ requests[i].status = "InFlight"
  /\ ~JsonParses(resp)
  /\ requests' = [requests EXCEPT ![i].status = "Failed", ![i].response = resp]
  /\ UNCHANGED <<analyzedLinks, timeVars, docVars, annotVars, gateVars, msgVars>>

(* ----------------------------- click gate ------------------------------ *)
DefaultScoreBlocking == <<"1", "0", "0">>

\* the score assumed for an anchor without a data-risk-score attribute
DefaultScore == <<"0">>
Unknown == <<"U", "N", "K", "N", "O", "W", "N">>

\* a || b on attribute values: null and the empty string are falsy
OrElse(a, b) == IF a = NoAttr \/ a = <<>> THEN b ELSE a

BlockAtAbove == 70 + 1

BlockAt == 70
WarnAt == 40

showWarningModalNoLevel(url, score, level) ==
  LET id == modalSeq + 1
      m == [id |-> id, url |-> url, score |-> score, level |-> Unknown,
            closeRemoves |-> {}, reportRemoves |-> {}]
      ms == Append(modals, m)
  IN /\ modalSeq' = id
     /\ modals' = [ms EXCEPT ![1].closeRemoves = @ \cup {id},
                             ![1].reportRemoves = @ \cup {id}]

\* document.getElementById finds the first element with the id in document
\* order: the buttons of the first modal in the document
showWarningModal(url, score, level) ==
  LET id == modalSeq + 1
      m == [id |-> id, url |-> url, score |-> score, level |-> level,
            closeRemoves |-> {}, reportRemoves |-> {}]
      ms == Append(modals, m)
  IN /\ modalSeq' = id
     /\ modals' = [ms EXCEPT ![1].closeRemoves = @ \cup {id},
                             ![1].reportRemoves = @ \cup {id}]

\* the branch of handleLinkClick that blocks a high-risk link
blockBranch(e, riskScore, riskLevel) ==
  /\ event' = [target |-> e, defaultPrevented |-> TRUE,
               propagationStopped |-> TRUE, confirmShown |-> FALSE,
               proceed |-> "none", warningShown |-> TRUE]
  /\ showWarningModal(href[e], riskScore, riskLevel)

warnBranchKeepsPropagating(e, proceed) ==
  /\ event' = [target |-> e, defaultPrevented |-> ~proceed,
               propagationStopped |-> FALSE, confirmShown |-> TRUE,
               proceed |-> IF proceed THEN "yes" ELSE "no",
               warningShown |-> FALSE]
  /\ UNCHANGED <<modals, modalSeq>>

\* the branch of handleLinkClick that warns for a medium-risk link; proceed
\* is what confirm() returned
warnBranch(e, proceed) ==
  /\ event' = [target |-> e, defaultPrevented |-> ~proceed,
               propagationStopped |-> ~proceed, confirmShown |-> TRUE,
               proceed |-> IF proceed THEN "yes" ELSE "no",
               warningShown |-> FALSE]
  /\ UNCHANGED <<modals, modalSeq>>

\* handleLinkClick for a click inside anchor e; proceed is the user's answer
\* to confirm(), asked only on the warn branch
handleLinkClick(e, proceed) ==
  /\ Idle
  /\ e \in inDoc
  /\ LET riskScore == parseInt(OrElse(dataRiskScore[e], DefaultScore))
         riskLevel == OrElse(dataRiskLevel[e], Unknown)
     IN IF GE(riskScore, BlockAt) THEN proceed /\ blockBranch(e, riskScore, riskLevel)
        ELSE IF GE(riskScore, WarnAt) THEN warnBranch(e, proceed)
        ELSE /\ proceed
             /\ event' = [target |-> e, defaultPrevented |-> FALSE,
                          propagationStopped |-> FALSE, confirmShown |-> FALSE,
                          proceed |-> "none", warningShown |-> FALSE]
             /\ UNCHANGED <<modals, modalSeq>>
  /\ UNCHANGED <<indexVars, timeVars, docVars, annotVars, msgVars>>

\* The dispatch of the click ends: the browser performs the default action
\* (the navigation) unless it was prevented, and the event is gone.
dispatchEnd ==
  /\ event # NoEvent
  /\ event' = NoEvent
  /\ UNCHANGED <<modals, modalSeq, indexVars, timeVars, docVars, annotVars, msgVars>>

RECURSIVE RemoveModals(_, _)
RemoveModals(ms, ids) ==
  IF ms = <<>> THEN <<>>
  ELSE IF Head(ms).id \in ids THEN RemoveModals(Tail(ms), ids)
  ELSE <<Head(ms)>> \o RemoveModals(Tail(ms), ids)

\* the Close button of the k-th modal is activated: its click listeners run
closeWarning(k) ==
  /\ Idle
  /\ k \in 1..Len(modals)
  /\ modals' = RemoveModals(modals, modals[k].closeRemoves)
  /\ UNCHANGED <<event, modalSeq, indexVars, timeVars, docVars, annotVars, msgVars>>

\* the Report Threat button of the k-th modal is activated
reportThreat(k) ==
  /\ Idle
  /\ k \in 1..Len(modals)
  /\ modals' = RemoveModals(modals, modals[k].reportRemoves)
  /\ UNCHANGED <<event, modalSeq, indexVars, timeVars, docVars, annotVars, msgVars>>

(* ------------------------- observeDOMChanges --------------------------- *)
MutationStaggered(root, kids) ==
  /\ Idle
  /\ root \in (Elems \ inDoc) \cup {"div"}
  /\ kids \subseteq Elems \ inDoc
  /\ IF root = "div" THEN kids # {} ELSE kids = {}
  /\ timers' = timers \cup {[el |-> e, idx |-> 1, left |-> 1, gen |-> rescans] :
                              e \in kids \cup (IF root = "div" THEN {} ELSE {root})}
  /\ inDoc' = inDoc \cup kids \cup (IF root = "div" THEN {} ELSE {root})
  /\ UNCHANGED <<href, hrefChanges, indexVars, annotVars, gateVars, msgVars>>

\* The page inserts one subtree. Its root is either the anchor root itself
\* (kids empty) or a container ("div") whose descendants are the anchors
\* kids. The observer callback analyzes the root when it is an anchor with
\* an href, then every a[href] below it.
Mutation(root, kids) ==
  /\ Idle
  /\ root \in (Elems \ inDoc) \cup {"div"}
  /\ kids \subseteq Elems \ inDoc
  /\ IF root = "div" THEN kids # {} ELSE kids = {}
  /\ LET rootLinks == IF root # "div" /\ UrlText(href[root]) # <<>>
                      THEN <<root>> ELSE <<>>
         ix == analyzeAll(Index, rootLinks \o querySelectorAll(kids))
     IN /\ analyzedLinks' = ix.links
        /\ requests' = ix.reqs
  /\ inDoc' = inDoc \cup kids \cup (IF root = "div" THEN {} ELSE {root})
  /\ UNCHANGED <<href, hrefChanges, timeVars, annotVars, gateVars, msgVars>>

\* The page rewrites the href of an anchor. The observer watches childList
\* and subtree only, so no callback of the content script runs.
SetHref(e, u) ==
  /\ Idle
  /\ e \in inDoc
  /\ u \in URLs \ {href[e]}
  /\ href' = [href EXCEPT ![e] = u]
  /\ hrefChanges' = hrefChanges + 1
  /\ UNCHANGED <<inDoc, indexVars, timeVars, annotVars, gateVars, msgVars>>

(* ------------------------- runtime.onMessage --------------------------- *)
rescanPageKeepsIndex ==
  /\ Idle
  /\ timers' = timers \cup scanAllLinks(inDoc, rescans + 1)
  /\ rescans' = rescans + 1
  /\ reply' = [success |-> TRUE]
  /\ UNCHANGED <<indexVars, docVars, annotVars, gateVars>>

rescanPage ==
  /\ Idle
  /\ analyzedLinks' = {}
  /\ timers' = timers \cup scanAllLinks(inDoc, rescans + 1)
  /\ rescans' = rescans + 1
  /\ reply' = [success |-> TRUE]
  /\ UNCHANGED <<requests, docVars, annotVars, gateVars>>

\* 100ms of simulated time pass; no timer is overdue
Tick ==
  /\ Idle
  /\ timers # {}
  /\ \A t \in timers : t.left > 0
  /\ timers' = {[t EXCEPT !.left = @ - 1] : t \in timers}
  /\ UNCHANGED <<docVars, indexVars, annotVars, gateVars, msgVars>>

\* The content script on a page of Documents. The session explored is
\* cut off after MaxRequests requests, MaxRescans rescanPage messages and
\* MaxModals warning modals.
Next ==
  \/ \E t \in timers :
       TimerFire(t) /\ Len(requests') <= MaxRequests /\ UNCHANGED bgVars
  \/ Tick /\ UNCHANGED bgVars
  \/ \E i \in 1..Len(requests), resp \in Responses :
       Resolve(i, resp) /\ UNCHANGED bgVars
  \/ \E i \in 1..Len(requests), resp \in Responses :
       Reject(i, resp) /\ UNCHANGED bgVars
  \/ \E e \in Elems, proceed \in BOOLEAN :
       handleLinkClick(e, proceed) /\ modalSeq' <= MaxModals /\ UNCHANGED bgVars
  \/ dispatchEnd /\ UNCHANGED bgVars
  \/ \E root \in Elems \cup {"div"}, kids \in SUBSET Elems :
       Mutation(root, kids) /\ Len(requests') <= MaxRequests /\ UNCHANGED bgVars
  \/ rescanPage /\ rescans' <= MaxRescans /\ UNCHANGED bgVars

Spec == Init /\ [][Next]_vars

(* The click gate over the whole score range: the first request of the     *)
(* page may be answered with any score, the others stay in flight.         *)
NextGate ==
  \/ \E t \in timers : TimerFire(t) /\ UNCHANGED bgVars
  \/ Tick /\ UNCHANGED bgVars
  \/ \E s \in 0..MaxGateScore : Resolve(1, OkResponse(s)) /\ UNCHANGED bgVars
  \/ \E e \in Elems, proceed \in BOOLEAN :
       handleLinkClick(e, proceed) /\ modalSeq' <= MaxGateModals /\ UNCHANGED bgVars
  \/ dispatchEnd /\ UNCHANGED bgVars
  \/ \E k \in 1..Len(modals) : closeWarning(k) /\ UNCHANGED bgVars
  \/ \E k \in 1..Len(modals) : reportThreat(k) /\ UNCHANGED bgVars

SpecGate == Init /\ [][NextGate]_vars

(* Scans and rescans with timers that fire when they are due: setTimeout   *)
(* callbacks run once their delay has elapsed, and time does not stop.      *)
(* Every scored answer is the same one; clicks are left out.                *)
NextRescan ==
  \/ \E t \in timers : TimerFire(t) /\ UNCHANGED bgVars
  \/ Tick /\ UNCHANGED bgVars
  \/ \E i \in 1..Len(requests) : Resolve(i, OkResponse(85)) /\ UNCHANGED bgVars
  \/ \E root \in Elems \cup {"div"}, kids \in SUBSET Elems :
       Mutation(root, kids) /\ UNCHANGED bgVars
  \/ rescanPage /\ rescans' <= MaxRescans /\ UNCHANGED bgVars

SpecRescan ==
  /\ Init /\ [][NextRescan]_vars
  /\ WF_vars(Tick /\ UNCHANGED bgVars)
  /\ WF_vars(\E t \in timers : TimerFire(t) /\ UNCHANGED bgVars)

(* The page rewrites the targets of its anchors while the scan runs and    *)
(* the user clicks.                                                        *)
NextHref ==
  \/ \E t \in timers : TimerFire(t) /\ UNCHANGED bgVars
  \/ Tick /\ UNCHANGED bgVars
  \/ \E i \in 1..Len(requests) : Resolve(i, OkResponse(85)) /\ UNCHANGED bgVars
  \/ \E e \in Elems, u \in URLs :
       SetHref(e, u) /\ hrefChanges' <= MaxHrefChanges /\ UNCHANGED bgVars
  \/ \E e \in Elems, proceed \in BOOLEAN :
       handleLinkClick(e, proceed) /\ modalSeq' <= MaxModals /\ UNCHANGED bgVars
  \/ dispatchEnd /\ UNCHANGED bgVars

SpecHref == Init /\ [][NextHref]_vars

(* Scans, rescans and mutations on pages that also include one whose first *)
(* anchor and whose inserted anchor are both mailto: links.                 *)
FilterDocuments == Documents \cup {Doc(UrlMail, UrlA, UrlMail)}

InitFilter ==
  /\ InitBg
  /\ href \in FilterDocuments
  /\ InitPage

SpecFilter == InitFilter /\ [][NextRescan]_vars

(* The initial scan with requests that are scored, fail, come back        *)
(* malformed or never complete: timers fire when due, nothing makes a      *)
(* request complete.                                                       *)
NextFail ==
  \/ \E t \in timers : TimerFire(t) /\ UNCHANGED bgVars
  \/ Tick /\ UNCHANGED bgVars
  \/ \E i \in 1..Len(requests), resp \in Responses :
       Resolve(i, resp) /\ UNCHANGED bgVars
  \/ \E i \in 1..Len(requests), resp \in Responses :
       Reject(i, resp) /\ UNCHANGED bgVars
  \/ \E root \in Elems \cup {"div"}, kids \in SUBSET Elems :
       Mutation(root, kids) /\ UNCHANGED bgVars

SpecFail ==
  /\ Init /\ [][NextFail]_vars
  /\ WF_vars(Tick /\ UNCHANGED bgVars)
  /\ WF_vars(\E t \in timers : TimerFire(t) /\ UNCHANGED bgVars)

(* ======================== background service worker ==================== *)
(* src/extension/background.js. The worker is started by the browser when  *)
(* an event arrives and terminated when it is idle; module-level state is  *)
(* initialised anew at every start. onInstalled is dispatched on install   *)
(* and on an update of the extension or the browser, not on other starts.  *)
(* analyzeURL is called with the tab of the context-menu click or of the   *)
(* content script that sent the message.                                   *)

\* chrome.runtime.onInstalled listener: asks the storage for 'stats' and
\* shows the welcome notification. The storage serves its operations in
\* the order they were issued, so the get returns the value stored now.
onInstalled ==
  /\ installPending
  /\ installPending' = FALSE
  /\ loading' = [pending |-> TRUE, value |-> stored]
  /\ notifications' = Append(notifications,
                             [kind |-> "welcome", priority |-> 0])
  /\ UNCHANGED <<stats, stored, restarts, analyses, tabUrl>>

\* the callback of chrome.storage.local.get(['stats'], ...)
loadCallback ==
  /\ loading.pending
  /\ stats' = IF loading.value # NoStats THEN loading.value ELSE stats
  /\ loading' = NoLoad
  /\ UNCHANGED <<stored, installPending, restarts, analyses, notifications, tabUrl>>

\* no callback of the worker is pending
WorkerIdle ==
  /\ ~installPending /\ ~loading.pending
  /\ \A k \in 1..Len(analyses) : analyses[k].status # "fetching"

\* The browser terminates the idle worker and starts it again for the
\* next event; update tells whether the start follows an update of the
\* extension or of the browser (onInstalled is dispatched) or not.
Restart(update) ==
  /\ WorkerIdle
  /\ stats' = ZeroStats
  /\ installPending' = update
  /\ restarts' = restarts + 1
  /\ UNCHANGED <<stored, loading, analyses, notifications, tabUrl>>

analyzeURLAnswersAtOnce(url, via) ==
  /\ ~installPending
  /\ analyses' = Append(analyses, [url |-> url, via |-> via, status |-> "fetching",
                                   response |-> NoResponse,
                                   answers |-> IF via = "message" THEN 1 ELSE 0])
  /\ UNCHANGED <<stats, stored, loading, installPending, restarts,
                 notifications, tabUrl>>

\* the synchronous part of analyzeURL(url, tab), up to the fetch
analyzeURL(url, via) ==
  /\ ~installPending
  /\ analyses' = Append(analyses, [url |-> url, via |-> via, status |-> "fetching",
                                   response |-> NoResponse, answers |-> 0])
  /\ UNCHANGED <<stats, stored, loading, installPending, restarts,
                 notifications, tabUrl>>

\* chrome.contextMenus.onClicked with menuItemId 'analyze-link' on anchor e
contextMenuClick(e) == e \in inDoc /\ analyzeURL(href[e], "menu")

\* chrome.runtime.onMessage with action 'analyzeURL'; the listener returns
\* true, which keeps the channel open for the answer
analyzeURLMessage(u) == analyzeURL(u, "message")

BgBlockAtAbove == 70 + 1

BgBlockAt == 70
BgWarnAt == 40

PriorityFlat(score) == IF GE(score, BgBlockAt) THEN 2 ELSE 0

\* priority chosen by showNotification
Priority(score) == IF GE(score, BgBlockAt) THEN 2
                   ELSE IF GE(score, BgWarnAt) THEN 1 ELSE 0

showNotification(result) ==
  [kind |-> "result",
   emoji |-> IF GE(result.risk_score, BgBlockAt) THEN "alarm"
             ELSE IF GE(result.risk_score, BgWarnAt) THEN "warning" ELSE "check",
   level |-> ToJSString(result.risk_level),
   score |-> ToJSString(result.risk_score),
   priority |-> Priority(result.risk_score)]

ThreatBlocked(result) ==
  [kind |-> "blocked", score |-> ToJSString(result.risk_score), priority |-> 2]

AnalysisFailed == [kind |-> "failed", priority |-> 0]

\* new Date().toISOString(): the completions so far order the instants
Clock == Cardinality({k \in 1..Len(analyses) : analyses[k].status = "done"}) + 1

\* what the promise of analyzeURL settling does to the message channel:
\* the then-callback of the listener calls sendResponse({success: true})
Answered(a) == IF a.via = "message" THEN a.answers + 1 ELSE a.answers

\* the fetch of analysis k settles and response.json() resolves: the rest
\* of the try block of analyzeURL runs, then the promise resolves
bgResolve(k, resp) ==
  /\ k \in 1..Len(analyses)
  /\ analyses[k].status = "fetching"
  /\ JsonParses(resp)
  /\ LET result == resp.body
         high == GE(result.risk_score, BgBlockAt)
     IN /\ stats' = [urlsScanned |-> stats.urlsScanned + 1,
                     threatsBlocked |-> stats.threatsBlocked + (IF high THEN 1 ELSE 0),
                     lastScan |-> Clock]
        /\ stored' = stats'
        /\ notifications' = notifications \o <<showNotification(result)>>
                              \o (IF high THEN <<ThreatBlocked(result)>> ELSE <<>>)
        /\ tabUrl' = IF high THEN BlankTab ELSE tabUrl
  /\ analyses' = [analyses EXCEPT ![k].status = "done", ![k].response = resp,
                                  ![k].answers = Answered(analyses[k])]
  /\ UNCHANGED <<loading, installPending, restarts>>

\* the fetch rejects, or response.json() rejects: the catch block of
\* analyzeURL runs, then the promise resolves
bgReject(k, resp) ==
  /\ k \in 1..Len(analyses)
  /\ analyses[k].status = "fetching"
  /\ ~JsonParses(resp)
  /\ notifications' = Append(notifications, AnalysisFailed)
  /\ analyses' = [analyses EXCEPT ![k].status = "failed", ![k].response = resp,
                                  ![k].answers = Answered(analyses[k])]
  /\ UNCHANGED <<stats, stored, loading, installPending, restarts, tabUrl>>

\* The worker over a session of at most MaxAnalyses analyses and
\* MaxRestarts restarts; the page is left as it was loaded.
NextBg ==
  \/ onInstalled /\ UNCHANGED pageVars
  \/ loadCallback /\ UNCHANGED pageVars
  \/ \E update \in BOOLEAN :
       Restart(update) /\ restarts' <= MaxRestarts /\ UNCHANGED pageVars
  \/ contextMenuClick("e2") /\ Len(analyses') <= MaxAnalyses /\ UNCHANGED pageVars
  \/ analyzeURLMessage(UrlA) /\ Len(analyses') <= MaxAnalyses /\ UNCHANGED pageVars
  \/ \E k \in 1..Len(analyses), resp \in Responses :
       bgResolve(k, resp) /\ UNCHANGED pageVars
  \/ \E k \in 1..Len(analyses), resp \in Responses :
       bgReject(k, resp) /\ UNCHANGED pageVars

SpecBg == Init /\ [][NextBg]_vars

\* the fetch of analysis k settles, one way or the other
Settle(k) ==
  \E resp \in Responses :
    (bgResolve(k, resp) \/ bgReject(k, resp)) /\ UNCHANGED pageVars

\* The worker when every remote call eventually resolves or rejects.
SpecBgFair == SpecBg /\ \A k \in 1..MaxAnalyses : WF_vars(Settle(k))

(* The two paths side by side: the page's first request is answered with   *)
(* any score, and a reactive analysis of the same link gets the answer the *)
(* service gave to the page. Once the tab is redirected the page is gone.  *)
NextPolicy ==
  \/ \E t \in timers : tabUrl = PageTab /\ TimerFire(t) /\ UNCHANGED bgVars
  \/ tabUrl = PageTab /\ Tick /\ UNCHANGED bgVars
  \/ \E s \in 0..MaxGateScore :
       tabUrl = PageTab /\ Resolve(1, OkResponse(s)) /\ UNCHANGED bgVars
  \/ \E e \in Elems, proceed \in BOOLEAN :
       /\ tabUrl = PageTab
       /\ handleLinkClick(e, proceed) /\ modalSeq' <= MaxModals
       /\ UNCHANGED bgVars
  \/ dispatchEnd /\ UNCHANGED bgVars
  \/ onInstalled /\ UNCHANGED pageVars
  \/ loadCallback /\ UNCHANGED pageVars
  \/ /\ requests # <<>>
     /\ contextMenuClick(requests[1].el) /\ Len(analyses') <= MaxPolicyAnalyses
     /\ UNCHANGED pageVars
  \/ \E k \in 1..Len(analyses) :
       /\ requests # <<>> /\ requests[1].status = "Annotated"
       /\ bgResolve(k, requests[1].response)
       /\ UNCHANGED pageVars

SpecPolicy == Init /\ [][NextPolicy]_vars

(* ------------------------- outcomes of a click ------------------------- *)
Deny(ev) == /\ ev.defaultPrevented /\ ev.propagationStopped
            /\ ev.warningShown /\ ~ev.confirmShown

Warn(ev) == ev.confirmShown /\ ~ev.warningShown

Allow(ev) == /\ ~ev.defaultPrevented /\ ~ev.propagationStopped
             /\ ~ev.confirmShown /\ ~ev.warningShown

Clicked(e) == event # NoEvent /\ event.target = e

Unannotated(e) == /\ dataRiskScore[e] = NoAttr /\ dataRiskLevel[e] = NoAttr
                  /\ title[e] = NoTitle /\ badges[e] = 0
                  /\ style[e] = [border |-> NoStyle, backgroundColor |-> NoStyle]

RequestsOf(e) == {i \in 1..Len(requests) : requests[i].el = e}

\* C1: for every integer score s in 0..100 stored as the data-risk-score of
\* an anchor, a click on the anchor is DENY iff s >= 70, WARN iff
\* 40 <= s < 70 and ALLOW otherwise, and exactly one of the three.
C1_GateClassifiesEveryScore ==
  \A e \in Elems, s \in 0..MaxGateScore :
    (Clicked(e) /\ dataRiskScore[e] = NumToStr(s)) =>
      /\ Deny(event) <=> s >= 70
      /\ Warn(event) <=> (40 <= s /\ s < 70)
      /\ Allow(event) <=> s < 40
      /\ Deny(event) => modals # <<>> /\ modals[Len(modals)].id = modalSeq
      /\ ~(Deny(event) /\ Warn(event)) /\ ~(Deny(event) /\ Allow(event))
      /\ ~(Warn(event) /\ Allow(event))

C1_Witness ==
  /\ Clicked("e1") /\ dataRiskScore["e1"] = NumToStr(70) /\ Deny(event)

\* C2: a click on an anchor that carries no data-risk-score attribute is
\* ALLOW: nothing is cancelled, no confirmation is asked, no modal is shown.
C2_UnscoredNeverBlocks ==
  \A e \in Elems : (Clicked(e) /\ dataRiskScore[e] = NoAttr) => Allow(event)

C2_Witness ==
  \E e \in Elems :
    /\ Clicked(e) /\ dataRiskScore[e] = NoAttr /\ Allow(event)
    /\ \E i \in RequestsOf(e) : requests[i].status = "InFlight"

(* ------------------------------ requests ------------------------------- *)
IsHttp(u) == \/ startsWith(UrlText(u), HttpPrefix)
             \/ startsWith(UrlText(u), HttpsPrefix)

\* requests dispatched for URL u while the index was in its g-th filling
RequestsFor(u, g) ==
  {i \in 1..Len(requests) : requests[i].url = u /\ requests[i].gen = g}

Outstanding(u) ==
  {i \in 1..Len(requests) : requests[i].url = u /\ requests[i].status = "InFlight"}

\* anchor e has been handed to analyzeLinkElement since the index was last
\* cleared: it is in the document and no timer of the current scan holds it
Presented(e) ==
  e \in inDoc /\ ~\E t \in timers : t.el = e /\ t.gen = rescans

\* this step dispatches a request for URL u
NewRequestFor(u) ==
  \E j \in (Len(requests) + 1)..Len(requests') : requests'[j].url = u

\* this step is the handling of a click on anchor e
ClickStep(e) == event = NoEvent /\ event' # NoEvent /\ event'.target = e

\* C3: in every reachable state each URL has at most one outstanding
\* (dispatched, not yet completed) scoring request.
C3_OneOutstandingPerUrl ==
  \A u \in URLs : Cardinality(Outstanding(u)) <= 1

\* C4: however the scan timers and the mutation callbacks interleave, a URL
\* they present is requested exactly once per filling of the index: never
\* twice, and once as soon as an anchor carrying it has been presented.
C4_SameUrlDispatchedOnce ==
  \A u \in URLs :
    /\ \A g \in 0..rescans : Cardinality(RequestsFor(u, g)) <= 1
    /\ u \in analyzedLinks <=> Cardinality(RequestsFor(u, rescans)) = 1
    /\ (IsHttp(u) /\ \E e \in Elems : Presented(e) /\ href[e] = u)
         => u \in analyzedLinks

C4_Witness ==
  /\ rescans = 0
  /\ "e3" \in inDoc /\ href["e3"] = href["e1"] /\ IsHttp(href["e1"])
  /\ Presented("e1") /\ Presented("e3")
  /\ Cardinality(RequestsFor(href["e1"], 0)) = 1

\* C5: a click on an anchor whose data-risk-score is s >= 70 cancels the
\* default action and the propagation and opens the warning modal with the
\* anchor's URL, s and its level; the index, the requests, the timers and
\* every annotation are left as they were.
C5_BlockedClickFrame ==
  [][\A e \in Elems, s \in 70..MaxGateScore :
       (ClickStep(e) /\ dataRiskScore[e] = NumToStr(s)) =>
         /\ Deny(event')
         /\ Len(modals') = Len(modals) + 1
         /\ LET m == modals'[Len(modals')]
            IN m.url = href[e] /\ m.score = Num(s) /\ m.level = dataRiskLevel[e]
         /\ UNCHANGED <<analyzedLinks, requests, timers, annotVars, docVars, msgVars>>
    ]_vars

C5_Witness ==
  \E e \in Elems :
    /\ Clicked(e) /\ Deny(event) /\ dataRiskScore[e] = NumToStr(85)
    /\ modals # <<>>
    /\ LET m == modals[Len(modals)]
       IN m.url = href[e] /\ m.score = Num(85) /\ m.level = dataRiskLevel[e]
    /\ \E u \in URLs : Outstanding(u) # {}

\* C6: a click on an anchor whose data-risk-score is s with 40 <= s < 70
\* asks for confirmation and has the answer when the handler returns;
\* declined, the default action and the propagation are cancelled; accepted,
\* the event is left untouched; no modal is opened.
C6_WarnClickFollowsAnswer ==
  \A e \in Elems, s \in 40..69 :
    (Clicked(e) /\ dataRiskScore[e] = NumToStr(s)) =>
      /\ event.confirmShown /\ ~event.warningShown
      /\ event.proceed \in {"yes", "no"}
      /\ event.proceed = "no" => event.defaultPrevented /\ event.propagationStopped
      /\ event.proceed = "yes" => ~event.defaultPrevented /\ ~event.propagationStopped

C6_Witness ==
  /\ Clicked("e1") /\ dataRiskScore["e1"] = NumToStr(55)
  /\ event.proceed = "no" /\ event.defaultPrevented /\ event.propagationStopped

\* the most recent request for URL u, 0 when there is none
LastRequestFor(u) ==
  LET S == {i \in 1..Len(requests) : requests[i].url = u}
  IN IF S = {} THEN 0 ELSE CHOOSE i \in S : \A j \in S : j <= i

\* C7: if the most recent request for an anchor's URL is still in flight or
\* has failed, a click on the anchor is ALLOW.
C7_NotScoredNeverBlocks ==
  \A e \in Elems :
    LET i == LastRequestFor(href[e])
    IN (Clicked(e) /\ i # 0 /\ requests[i].status \in {"InFlight", "Failed"})
         => Allow(event)

NeverAnnotated(e) == \A i \in RequestsOf(e) : requests[i].status # "Annotated"

C9_BadAnswerHandledAsFailure ==
  \A i \in 1..Len(requests) :
    LET r == requests[i]
    IN r.response.kind = "no_risk_score" =>
         /\ r.status = "Failed"
         /\ (\A j \in RequestsOf(r.el) : requests[j].response.kind # "ok")
              => Unannotated(r.el)

FailedFor(u) ==
  {i \in 1..Len(requests) : requests[i].url = u /\ requests[i].status = "Failed"}

\* C10 as stated: once the request for a URL has failed, no later event
\* (scan timer, mutation, rescanPage) dispatches another request for it.
C10_NoRequestAfterFailure ==
  [][\A u \in URLs : NewRequestFor(u) => FailedFor(u) = {}]_vars

\* C10 as amended: once the request for a URL has failed, no later event
\* dispatches another request for it unless a rescanPage message was
\* handled after the failed request was dispatched.
C10_NoRetryWithoutRescan ==
  [][\A u \in URLs :
       NewRequestFor(u) => \A i \in FailedFor(u) : requests[i].gen < rescans]_vars

C10_Witness ==
  /\ "e3" \in inDoc /\ href["e3"] = href["e1"] /\ timers = {}
  /\ FailedFor(href["e1"]) # {}
  /\ \A i \in FailedFor(href["e1"]) : requests[i].gen = rescans
  /\ Cardinality(RequestsFor(href["e1"], rescans)) = 1

(* --------------------------- duplicate anchors ------------------------- *)
\* this step completes request i with a scored answer
ScoredStep(i) ==
  /\ i \in 1..Len(requests)
  /\ requests[i].status = "InFlight"
  /\ requests'[i].status = "Annotated"
  /\ requests'[i].response.kind = "ok"

\* C11: when the request for a URL is scored, every anchor of the document
\* that carries this URL gets the data-risk-score and data-risk-level of the
\* answer, so that two anchors with one URL are gated alike.
C11_EveryAnchorOfUrlAnnotated ==
  [][\A i \in 1..Len(requests) :
       ScoredStep(i) =>
         \A e \in inDoc :
           href[e] = requests[i].url =>
             /\ dataRiskScore'[e] = ToJSString(requests'[i].response.body.risk_score)
             /\ dataRiskLevel'[e] = ToJSString(requests'[i].response.body.risk_level)
    ]_vars

(* ------------------------------- stagger ------------------------------- *)
\* time since the scan that registered timer t started, in steps of 100ms:
\* the delay given to setTimeout less the part of it still to elapse
Elapsed(t) == t.idx - t.left

\* the anchors before e in document order
Before(e) ==
  LET p == CHOOSE i \in 1..Len(DocOrder) : DocOrder[i] = e
  IN {DocOrder[j] : j \in 1..(p - 1)}

\* 0-based position of anchor e among the a[href] anchors of the page at
\* load, and among those of them that target http(s)
AnchorRank(e) == Cardinality(Before(e) \cap InitialDoc)
QualifyingRank(e) ==
  Cardinality({x \in Before(e) \cap InitialDoc : IsHttp(href[x])})

\* this step is the callback of scan timer t and dispatches a request
ScanDispatch(t) ==
  /\ t \in timers /\ t \notin timers'
  /\ Len(requests') = Len(requests) + 1
  /\ requests'[Len(requests')].el = t.el

\* C12 as stated: the request for the i-th qualifying link of the initial
\* scan is dispatched i * 100ms after the scan started.
C12_QualifyingLinkAtItsRank ==
  [][\A t \in timers :
       (t.gen = 0 /\ ScanDispatch(t)) => Elapsed(t) = QualifyingRank(t.el)]_vars

\* C12 as amended: the request for a qualifying link of the initial scan is
\* dispatched k * 100ms after the scan started, k being the position of the
\* anchor among all anchors with an href; this is never earlier than
\* i * 100ms for the i-th qualifying link.
C12_LinkAtItsAnchorRank ==
  [][\A t \in timers :
       (t.gen = 0 /\ ScanDispatch(t)) =>
         /\ t.left = 0
         /\ Elapsed(t) = AnchorRank(t.el)
         /\ Elapsed(t) >= QualifyingRank(t.el)]_vars

C12_Witness ==
  /\ href["e1"] = UrlMail /\ rescans = 0
  /\ \E i \in 1..Len(requests) : requests[i].el = "e2" /\ requests[i].gen = 0
  /\ \A t \in timers : t.el # "e2"

(* ------------------------------ mutations ------------------------------ *)
\* this step inserts a subtree into the document
MutationStep == inDoc' # inDoc

\* C13: when a subtree is inserted whose root or descendants include an
\* http(s) link with a URL not in the index, the request for that URL is
\* dispatched in the handling of the insertion itself: no time passes and
\* the pending scan timers, however many, stay as they are.
C13_InsertedLinkDispatchedAtOnce ==
  [][MutationStep =>
       /\ timers' = timers
       /\ \A e \in inDoc' \ inDoc :
            (IsHttp(href[e]) /\ href[e] \notin analyzedLinks) =>
              /\ NewRequestFor(href[e])
              /\ href[e] \in analyzedLinks'
              /\ Cardinality(Outstanding(href[e])') = Cardinality(Outstanding(href[e])) + 1
    ]_vars

C13_Witness ==
  /\ rescans = 0 /\ "e3" \in inDoc
  /\ \E i \in 1..Len(requests) : requests[i].el = "e3" /\ requests[i].status = "InFlight"
  /\ \E t \in timers : t.left > 0

(* ------------------------------- rescan -------------------------------- *)
\* this step is the handling of a rescanPage message
RescanStep == rescans' = rescans + 1

\* URL u is the target of an http(s) anchor of the document
QualifiesInDoc(u) == IsHttp(u) /\ \E e \in inDoc : href[e] = u

\* a request for URL u was dispatched after the g-th rescanPage message
RequestedSince(u, g) ==
  \E i \in 1..Len(requests) : requests[i].url = u /\ requests[i].gen >= g

\* C14: a rescanPage message empties the index, is answered with
\* {success: true} and registers a staggered timer for every anchor of the
\* document; every http(s) URL of the document, scored before or not, then
\* eventually has a request dispatched after the message.
C14_RescanRequestsEveryUrlAgain ==
  /\ [][RescanStep =>
          /\ analyzedLinks' = {}
          /\ reply' = [success |-> TRUE]
          /\ \A e \in inDoc :
               \E t \in timers' \ timers :
                 /\ t.el = e /\ t.gen = rescans'
                 /\ t.left = Cardinality(Before(e) \cap inDoc) /\ t.idx = t.left
       ]_vars
  /\ \A u \in URLs, g \in 1..MaxRescans :
       (rescans = g /\ QualifiesInDoc(u)) ~> RequestedSince(u, g)

C14_Witness ==
  /\ rescans = 1 /\ reply = [success |-> TRUE]
  /\ \E i, j \in 1..Len(requests) :
       /\ requests[i].url = requests[j].url
       /\ requests[i].gen = 0 /\ requests[i].status = "Annotated"
       /\ requests[j].gen = 1
  /\ \A u \in URLs : QualifiesInDoc(u) => RequestedSince(u, 1)

(* ----------------------------- annotation ------------------------------ *)
\* C20: once the request dispatched for an anchor is answered with score s,
\* the anchor's data-risk-score is s and its data-risk-level the level of
\* the answer, a click on it is DENY for s >= 70, WARN for 40 <= s < 70 and
\* ALLOW below, and the anchor has a badge iff s >= 40.
C20_AnnotationIsTheAnswer ==
  \A i \in 1..Len(requests) :
    LET r == requests[i]
        e == r.el
    IN (r.status = "Annotated" /\ r.response.kind = "ok") =>
         LET s == r.response.body.risk_score.v
         IN /\ dataRiskScore[e] = NumToStr(s)
            /\ parseInt(dataRiskScore[e]) = Num(s)
            /\ dataRiskLevel[e] = r.response.body.risk_level.v
            /\ badges[e] = (IF s >= 40 THEN 1 ELSE 0)
            /\ Clicked(e) =>
                 /\ Deny(event) <=> s >= 70
                 /\ Warn(event) <=> (s >= 40 /\ s < 70)
                 /\ Allow(event) <=> s < 40

C20_Witness ==
  \E i \in 1..Len(requests) :
    /\ requests[i].status = "Annotated"
    /\ requests[i].response = OkResponse(40)
    /\ dataRiskScore[requests[i].el] = <<"4", "0">>
    /\ badges[requests[i].el] = 1
    /\ Clicked(requests[i].el) /\ Warn(event)

(* -------------------------- reactive analyses --------------------------- *)
\* this step completes analysis k with a parsed answer
AnalysisCompletes(k) ==
  /\ k \in 1..Len(analyses)
  /\ analyses[k].status = "fetching"
  /\ analyses'[k].status = "done"

\* the notifications this step creates
NewNotifications ==
  {notifications'[j] : j \in (Len(notifications) + 1)..Len(notifications')}

ThreatAlerts(ns) == {n \in ns : n.kind = "blocked" /\ n.priority = 2}

\* C15: an analysis that completes with score s >= 70 redirects the tab to
\* the blank page and raises the high-priority THREAT BLOCKED alert; one
\* that completes with s < 70 does neither, and nothing else the worker
\* does changes what the tab shows.
C15_BlocksExactlyFromSeventy ==
  [][/\ \A k \in 1..Len(analyses), s \in 0..MaxGateScore :
          (AnalysisCompletes(k) /\ analyses'[k].response = OkResponse(s)) =>
            IF s >= 70
            THEN tabUrl' = BlankTab /\ ThreatAlerts(NewNotifications) # {}
            ELSE tabUrl' = tabUrl /\ ThreatAlerts(NewNotifications) = {}
     /\ tabUrl' # tabUrl =>
          \E k \in 1..Len(analyses), s \in 70..MaxGateScore :
            AnalysisCompletes(k) /\ analyses'[k].response = OkResponse(s)
    ]_vars

C15_Witness ==
  /\ tabUrl = BlankTab
  /\ \E k \in 1..Len(analyses) :
       analyses[k].status = "done" /\ analyses[k].response = OkResponse(70)
  /\ ThreatAlerts({notifications[j] : j \in 1..Len(notifications)}) # {}

\* C16: an analysis that fails - by a transport error, by a non-success
\* answer or by an answer without a valid risk_score - raises the
\* 'Analysis Failed' notification and leaves the tab alone.
C16_FailureIsNotified ==
  [][\A k \in 1..Len(analyses) :
       (/\ analyses[k].status = "fetching"
        /\ analyses'[k].status # "fetching"
        /\ analyses'[k].response.kind \in {"network_error", "no_risk_score"}) =>
         /\ AnalysisFailed \in NewNotifications
         /\ tabUrl' = tabUrl
    ]_vars

\* analyses completed with a parsed answer
Done == {k \in 1..Len(analyses) : analyses[k].status = "done"}

ResultNotifications ==
  {notifications[j] : j \in {i \in 1..Len(notifications) :
                               notifications[i].kind = "result"}}

\* C17: for every integer score s in 0..100 the worker blocks - redirects
\* the tab and counts a blocked threat - exactly when a click on an anchor
\* annotated with s is DENY, and the priority of its result notification is
\* 2, 1, 0 exactly when that click is DENY, WARN, ALLOW.
C17_SameThresholdsOnBothPaths ==
  \A e \in Elems, s \in 0..MaxGateScore :
    (/\ Clicked(e) /\ dataRiskScore[e] = NumToStr(s)
     /\ Done # {}
     /\ \A k \in Done : analyses[k].response = OkResponse(s)) =>
      /\ Deny(event) <=> tabUrl = BlankTab
      /\ stats.threatsBlocked = (IF Deny(event) THEN Cardinality(Done) ELSE 0)
      /\ ResultNotifications # {}
      /\ \A n \in ResultNotifications :
           /\ n.priority = 2 <=> Deny(event)
           /\ n.priority = 1 <=> Warn(event)
           /\ n.priority = 0 <=> Allow(event)

C17_Witness ==
  \E e \in Elems :
    /\ Clicked(e) /\ dataRiskScore[e] = NumToStr(40) /\ Warn(event)
    /\ Done # {} /\ \A k \in Done : analyses[k].response = OkResponse(40)
    /\ tabUrl = PageTab /\ stats.threatsBlocked = 0
    /\ \E n \in ResultNotifications : n.priority = 1

(* -------------------------------- stats -------------------------------- *)
\* C18: over completed analyses and restarts of the worker the persisted
\* urlsScanned and threatsBlocked never decrease, the worker counting on
\* from the persisted snapshot after a restart.
C18_PersistedStatsNeverDecrease ==
  [][stored # NoStats =>
       /\ stored'.urlsScanned >= stored.urlsScanned
       /\ stored'.threatsBlocked >= stored.threatsBlocked]_vars

(* ------------------------------ messaging ------------------------------ *)
\* C19: every analyzeURL message is answered exactly once, and only when
\* its analysis has finished - the stats updated or the failure handled -
\* given that the remote call settles; it is never answered twice.
C19_OneAnswerAfterAnalysis ==
  /\ [](\A k \in 1..Len(analyses) :
          /\ analyses[k].answers <= 1
          /\ analyses[k].status = "fetching" => analyses[k].answers = 0
          /\ analyses[k].via = "menu" => analyses[k].answers = 0
          /\ (analyses[k].via = "message" /\ analyses[k].status # "fetching")
               => analyses[k].answers = 1)
  /\ \A k \in 1..MaxAnalyses :
       (k <= Len(analyses) /\ analyses[k].via = "message")
         ~> (/\ k <= Len(analyses)
             /\ analyses[k].answers = 1
             /\ analyses[k].status \in {"done", "failed"})

C19_Witness ==
  \E j, k \in 1..Len(analyses) :
    /\ analyses[j].via = "message" /\ analyses[j].status = "done"
    /\ analyses[j].answers = 1
    /\ analyses[k].via = "message" /\ analyses[k].status = "failed"
    /\ analyses[k].answers = 1

(* ------------------------- order of completion ------------------------- *)
\* the most recent request dispatched for anchor e, 0 when there is none
LastRequestOf(e) ==
  IF RequestsOf(e) = {} THEN 0
  ELSE CHOOSE i \in RequestsOf(e) : \A j \in RequestsOf(e) : j <= i

\* C21: once every request dispatched for an anchor has completed, the
\* annotation on the anchor is the answer to the most recently dispatched
\* of them, in whatever order the answers arrived.
C21_LatestRequestWins ==
  \A e \in Elems :
    LET last == LastRequestOf(e)
    IN (/\ last # 0
        /\ \A i \in RequestsOf(e) : requests[i].status # "InFlight"
        /\ requests[last].status = "Annotated"
        /\ requests[last].response.kind = "ok") =>
         /\ dataRiskScore[e] = ToJSString(requests[last].response.body.risk_score)
         /\ dataRiskLevel[e] = ToJSString(requests[last].response.body.risk_level)

(* --------------------------- failing requests --------------------------- *)
\* C22: every http(s) URL of the page at load eventually has its request
\* dispatched, given that timers fire, whichever of the other requests
\* fail, are answered without a score or never complete.
C22_EveryUrlDispatchedDespiteFailures ==
  \A e \in InitialDoc :
    IsHttp(href[e]) ~> RequestedSince(href[e], 0)

C22_Witness ==
  \E i, j \in 1..Len(requests) :
    /\ i < j /\ requests[i].url # requests[j].url
    /\ requests[i].status = "Failed"
    /\ \A u \in URLs : QualifiesInDoc(u) => RequestedSince(u, 0)

(* ----------------------------- URL filter ------------------------------ *)
\* C23: a request is dispatched and an index entry created only for URLs
\* that start with http:// or https://; an anchor with another target
\* causes no request and no index entry, from a scan timer or a mutation.
C23_OnlyHttpIsRequested ==
  /\ \A u \in analyzedLinks : IsHttp(u)
  /\ \A i \in 1..Len(requests) : IsHttp(requests[i].url)
  /\ \A e \in Elems :
       ~IsHttp(href[e]) => RequestsOf(e) = {} /\ Unannotated(e)

C23_Witness ==
  /\ href["e1"] = UrlMail /\ Presented("e1") /\ RequestsOf("e1") = {}
  /\ href["e3"] = UrlMail /\ "e3" \in inDoc /\ RequestsOf("e3") = {}
  /\ UrlMail \notin analyzedLinks
  /\ \E i \in 1..Len(requests) : requests[i].el = "e2"

(* ------------------------------ burst rate ----------------------------- *)
\* scan timers t1 and t2 are both due now and each of their callbacks
\* dispatches a request
BothDispatchNow(t1, t2) ==
  /\ t1 # t2 /\ t1.left = 0 /\ t2.left = 0
  /\ Len(analyzeAll(Index, <<t1.el, t2.el>>).reqs) = Len(requests) + 2

\* C24: the scan path dispatches at most one request in any step of 100ms,
\* also when a rescanPage message arrives while timers of an earlier scan
\* are pending: never are two scan timers due at the same instant whose
\* callbacks both dispatch a request.
C24_OneScanDispatchPerStep ==
  \A t1, t2 \in timers : ~BothDispatchNow(t1, t2)

(* ----------------------------- lost updates ---------------------------- *)
\* this step is the callback of the storage get
LoadStep == loading.pending /\ ~loading'.pending

\* the stats the get delivers, the initial ones when nothing was stored
Loaded == IF loading.value # NoStats THEN loading.value ELSE ZeroStats

\* C25: however the analyses interleave with the callback of the storage
\* get, no count is lost: the analyses the worker has counted before the
\* callback runs are added to the loaded values, and the persisted
\* snapshot is the in-memory stats.
C25_LoadKeepsCountedAnalyses ==
  [][LoadStep =>
       /\ stats'.urlsScanned = Loaded.urlsScanned + stats.urlsScanned
       /\ stats'.threatsBlocked = Loaded.threatsBlocked + stats.threatsBlocked
       /\ stored' # NoStats => stored' = stats'
    ]_vars

(* --------------------------- rewritten targets -------------------------- *)
\* C26: at a click the data-risk-score the gate reads from an anchor was
\* computed for the URL the anchor targets now, also after the page has
\* changed the target of a dispatched or annotated anchor.
C26_ScoreBelongsToCurrentUrl ==
  \A e \in Elems :
    (Clicked(e) /\ dataRiskScore[e] # NoAttr) =>
      \E i \in RequestsOf(e) :
        /\ requests[i].status = "Annotated"
        /\ requests[i].url = href[e]
        /\ dataRiskScore[e] = ToJSString(requests[i].response.body.risk_score)

(* ---------------------------- warning modals ---------------------------- *)
\* C27: every warning modal that is open is removed by activating its own
\* Close button and by activating its own Report Threat button, also when
\* a second blocked click opened another modal while one was open.
C27_EveryModalDismissable ==
  \A k \in 1..Len(modals) :
    /\ modals[k].id \in modals[k].closeRemoves
    /\ modals[k].id \in modals[k].reportRemoves

(* -------------------------------- badges -------------------------------- *)
\* C28: after any sequence of scans, mutations and rescanPage messages an
\* annotated anchor carries at most one badge, and none when the score it
\* stores is below 40.
C28_AtMostOneBadge ==
  \A e \in Elems :
    /\ badges[e] <= 1
    /\ (dataRiskScore[e] # NoAttr /\ ~GE(parseInt(dataRiskScore[e]), 40))
         => badges[e] = 0
====
